---- MODULE Spec2Model ----
(***************************************************************************)
(* The GuessUs dictionary editor (Syrohub/guessus-editor).                 *)
(*                                                                         *)
(* Two revisions of the one React component are modelled:                  *)
(*   "App"      src/src/App.tsx        (filters, duplicates, bulk move)    *)
(*   "part_000" src/unnamed/part_000   (adds the localStorage cache, bulk  *)
(*                                      delete and AI word generation)     *)
(*                                                                         *)
(* Conventions.                                                            *)
(*  - A JavaScript string is a sequence of one-character strings, so that  *)
(*    toLowerCase, trim, includes and Number act on its characters.        *)
(*  - A JavaScript number is kept in fixed point with one decimal digit:   *)
(*    the integer n stands for n/10 (50 is the intensity 5, 25 is 2.5).    *)
(*  - A JavaScript object with string keys is a sequence of [k, v] pairs   *)
(*    in insertion order (ObjKeys is Object.keys).                         *)
(***************************************************************************)
EXTENDS Integers, Sequences, FiniteSets, TLC

Range(s) == {s[i] : i \in 1..Len(s)}

Min2(a, b) == IF a <= b THEN a ELSE b

Max2(a, b) == IF a >= b THEN a ELSE b

RECURSIVE Concat(_)
Concat(ss) == IF ss = <<>> THEN <<>> ELSE Head(ss) \o Concat(Tail(ss))

\* n stands for the JavaScript number n/10.
Tenths(n) == n * 10

(***************************************************************************)
(* Strings                                                                 *)
(***************************************************************************)
UpperLetters ==
  << "A", "B", "C", "D", "E", "F", "G", "H", "I", "J", "K", "L", "M",
     "N", "O", "P", "Q", "R", "S", "T", "U", "V", "W", "X", "Y", "Z" >>

LowerLetters ==
  << "a", "b", "c", "d", "e", "f", "g", "h", "i", "j", "k", "l", "m",
     "n", "o", "p", "q", "r", "s", "t", "u", "v", "w", "x", "y", "z" >>

LowerChar(c) ==
  IF c \in Range(UpperLetters)
  THEN LowerLetters[CHOOSE i \in 1..Len(UpperLetters) : UpperLetters[i] = c]
  ELSE c

UpperChar(c) ==
  IF c \in Range(LowerLetters)
  THEN UpperLetters[CHOOSE i \in 1..Len(LowerLetters) : LowerLetters[i] = c]
  ELSE c

toLowerCase(s) == [i \in 1..Len(s) |-> LowerChar(s[i])]

IsSpace(c) == c = " "

RECURSIVE trimStart(_)
trimStart(s) == IF s # <<>> /\ IsSpace(Head(s)) THEN trimStart(Tail(s)) ELSE s

RECURSIVE trimEnd(_)
trimEnd(s) ==
  IF s # <<>> /\ IsSpace(s[Len(s)]) THEN trimEnd(SubSeq(s, 1, Len(s) - 1)) ELSE s

trim(s) == trimEnd(trimStart(s))

\* String.prototype.includes
includes(s, q) ==
  \E i \in 0..(Len(s) - Len(q)) : SubSeq(s, i + 1, i + Len(q)) = q

\* Boolean(s) for a string
Truthy(s) == s # <<>>

\* catId.charAt(0).toUpperCase() + catId.slice(1)
Capitalize(s) == IF s = <<>> THEN <<>> ELSE <<UpperChar(Head(s))>> \o Tail(s)

(***************************************************************************)
(* Numbers: Number(string) and String(number)                              *)
(***************************************************************************)
Digits == <<"0", "1", "2", "3", "4", "5", "6", "7", "8", "9">>

IsDigit(c) == c \in Range(Digits)

DigitVal(c) == (CHOOSE i \in 1..Len(Digits) : Digits[i] = c) - 1

RECURSIVE DigitsVal(_)
DigitsVal(s) ==
  IF s = <<>> THEN 0
  ELSE DigitsVal(SubSeq(s, 1, Len(s) - 1)) * 10 + DigitVal(s[Len(s)])

AllDigits(s) == \A i \in 1..Len(s) : IsDigit(s[i])

NaN == [nan |-> TRUE, val |-> 0]

Num(v) == [nan |-> FALSE, val |-> v]

\* An unsigned decimal literal with at most one digit after the point
\* (the precision of the fixed-point numbers), in tenths.
UnsignedLiteral(t) ==
  LET dots == {i \in 1..Len(t) : t[i] = "."} IN
  IF dots = {} THEN
    IF t # <<>> /\ AllDigits(t) THEN Num(Tenths(DigitsVal(t))) ELSE NaN
  ELSE
    LET d == CHOOSE i \in dots : TRUE
        whole == SubSeq(t, 1, d - 1)
        frac == SubSeq(t, d + 1, Len(t))
    IN IF /\ Cardinality(dots) = 1
          /\ AllDigits(whole) /\ AllDigits(frac)
          /\ Len(whole) + Len(frac) > 0
          /\ Len(frac) <= 1
       THEN Num(Tenths(DigitsVal(whole)) + DigitsVal(frac))
       ELSE NaN

\* Number(s): white space is trimmed, the empty string is 0, a decimal
\* literal with an optional sign is its value, anything else is NaN.
Number(s) ==
  LET t == trim(s) IN
  IF t = <<>> THEN Num(0)
  ELSE IF Head(t) = "-" THEN
         LET u == UnsignedLiteral(Tail(t)) IN
         IF u.nan THEN NaN ELSE Num(0 - u.val)
  ELSE IF Head(t) = "+" THEN UnsignedLiteral(Tail(t))
  ELSE UnsignedLiteral(t)

RECURSIVE NatToString(_)
NatToString(n) ==
  IF n < 10 THEN <<Digits[n + 1]>>
  ELSE NatToString(n \div 10) \o <<Digits[(n % 10) + 1]>>

\* String(x) for a number x (in tenths): "5", "2.5", "-1"
NumberToString(v) ==
  LET a == IF v < 0 THEN 0 - v ELSE v
      body == NatToString(a \div 10) \o
              (IF a % 10 = 0 THEN <<>> ELSE <<".">> \o NatToString(a % 10))
  IN IF v < 0 THEN <<"-">> \o body ELSE body

(***************************************************************************)
(* Objects with string keys, in insertion order                            *)
(***************************************************************************)
ObjKeys(o) == [i \in 1..Len(o) |-> o[i].k]

ObjHas(o, key) == \E i \in 1..Len(o) : o[i].k = key

\* o[key] || []
ObjGetList(o, key) ==
  IF ObjHas(o, key) THEN o[CHOOSE i \in 1..Len(o) : o[i].k = key].v ELSE <<>>

\* o[key] = val
ObjSet(o, key, val) ==
  IF ObjHas(o, key)
  THEN [i \in 1..Len(o) |-> IF o[i].k = key THEN [k |-> key, v |-> val] ELSE o[i]]
  ELSE Append(o, [k |-> key, v |-> val])

(***************************************************************************)
(* Constants of the program                                                *)
(***************************************************************************)
LANGUAGES == <<"ru", "en", "es", "ua">>

Variants == {"adult", "family"}

party == <<"p", "a", "r", "t", "y">>
dirty == <<"d", "i", "r", "t", "y">>
extreme == <<"e", "x", "t", "r", "e", "m", "e">>
movies == <<"m", "o", "v", "i", "e", "s">>
food == <<"f", "o", "o", "d">>
animals == <<"a", "n", "i", "m", "a", "l", "s">>
sports == <<"s", "p", "o", "r", "t", "s">>
travel == <<"t", "r", "a", "v", "e", "l">>
professions == <<"p", "r", "o", "f", "e", "s", "s", "i", "o", "n", "s">>

CategoryMeta(id, name, emoji, lo, hi) ==
  [id |-> id, name |-> name, emoji |-> emoji,
   intensityMin |-> Tenths(lo), intensityMax |-> Tenths(hi)]

DEFAULT_ADULT_CATEGORIES ==
  << CategoryMeta(party, Capitalize(party), "party-popper", 2, 5),
     CategoryMeta(dirty, Capitalize(dirty), "no-one-under-18", 5, 8),
     CategoryMeta(extreme, Capitalize(extreme), "skull", 8, 10) >>

DEFAULT_FAMILY_CATEGORIES ==
  << CategoryMeta(movies, Capitalize(movies), "clapper", 1, 2),
     CategoryMeta(food, Capitalize(food), "pizza", 1, 2),
     CategoryMeta(animals, Capitalize(animals), "cat", 1, 2),
     CategoryMeta(sports, Capitalize(sports), "football", 1, 2),
     CategoryMeta(travel, Capitalize(travel), "airplane", 1, 2),
     CategoryMeta(professions, Capitalize(professions), "health-worker", 1, 2) >>

DefaultCats(variant) ==
  IF variant = "adult" THEN DEFAULT_ADULT_CATEGORIES ELSE DEFAULT_FAMILY_CATEGORIES

WordsFile(variant) == IF variant = "adult" THEN "words-adult.json" ELSE "words.json"

VersionFile(variant) ==
  IF variant = "adult" THEN "version-adult.json" ELSE "version.json"

CatIds(cats) == {cats[i].id : i \in 1..Len(cats)}

\* data.words[id] || []
WordsOf(data, id) == IF id \in DOMAIN data.words THEN data.words[id] ELSE <<>>

\* { ...words, [id]: list }
WithWords(words, id, list) ==
  [c \in DOMAIN words \cup {id} |-> IF c = id THEN list ELSE words[c]]

(***************************************************************************)
(* convertLegacyToNew / convertNewToLegacy                                 *)
(***************************************************************************)
\* legacy[lang] || {}
LegacyOf(legacy, lang) == IF lang \in DOMAIN legacy THEN legacy[lang] ELSE <<>>

RECURSIVE SetAddAll(_, _)
\* forEach(k => set.add(k)) on a Set kept in insertion order
SetAddAll(acc, keys) ==
  IF keys = <<>> THEN acc
  ELSE SetAddAll(IF Head(keys) \in Range(acc) THEN acc ELSE Append(acc, Head(keys)),
                 Tail(keys))

RECURSIVE AllCatIdsFrom(_, _, _)
AllCatIdsFrom(legacy, langs, acc) ==
  IF langs = <<>> THEN acc
  ELSE AllCatIdsFrom(legacy, Tail(langs),
                     SetAddAll(acc, ObjKeys(LegacyOf(legacy, Head(langs)))))

AllCatIds(legacy) == AllCatIdsFrom(legacy, LANGUAGES, <<>>)

LegacyCategory(catId) ==
  CategoryMeta(catId, Capitalize(catId), "folder", 1, 10)

RECURSIVE PushMissing(_, _)
PushMissing(categories, ids) ==
  IF ids = <<>> THEN categories
  ELSE PushMissing(IF Head(ids) \in CatIds(categories) THEN categories
                   ELSE Append(categories, LegacyCategory(Head(ids))),
                   Tail(ids))

\* a variant of AtOrEmpty that repeats the last string of a shorter list
AtOrLast(list, i) ==
  IF i <= Len(list) THEN list[i]
  ELSE IF list = <<>> THEN <<>> ELSE list[Len(list)]

\* list[i] || ''  (i counted from 1)
AtOrEmpty(list, i) == IF i <= Len(list) THEN list[i] ELSE <<>>

\* The bound of the random source: Math.random() returns k/RandDen, k < RandDen.
RandDen == 2

\* Math.floor(r * (max - min + 1)) + min for r = k/RandDen
RandomIntensity(cat, k) ==
  Tenths((k * (cat.intensityMax - cat.intensityMin + Tenths(1)))
            \div (RandDen * Tenths(1))) + cat.intensityMin

MaxLenOf(legacy, id) ==
  LET lens == {Len(ObjGetList(LegacyOf(legacy, l), id)) : l \in Range(LANGUAGES)}
  IN CHOOSE m \in lens : \A n \in lens : n <= m

\* The word list of one category; rand is the stream of draws still unread.
CatWords(legacy, cat, rand) ==
  [i \in 1..MaxLenOf(legacy, cat.id) |->
     [ru |-> AtOrEmpty(ObjGetList(LegacyOf(legacy, "ru"), cat.id), i),
      en |-> AtOrEmpty(ObjGetList(LegacyOf(legacy, "en"), cat.id), i),
      es |-> AtOrEmpty(ObjGetList(LegacyOf(legacy, "es"), cat.id), i),
      ua |-> AtOrEmpty(ObjGetList(LegacyOf(legacy, "ua"), cat.id), i),
      intensity |-> RandomIntensity(cat, rand[i])]]

RECURSIVE WordsFrom(_, _, _, _)
WordsFrom(legacy, cats, rand, words) ==
  IF cats = <<>> THEN words
  ELSE LET cat == Head(cats)
           n == MaxLenOf(legacy, cat.id)
       IN WordsFrom(legacy, Tail(cats), SubSeq(rand, n + 1, Len(rand)),
                    WithWords(words, cat.id, CatWords(legacy, cat, rand)))

\* rand: the successive results of Math.random(), as numerators over RandDen
convertLegacyToNew(legacy, variant, rand) ==
  LET categories == PushMissing(DefaultCats(variant), AllCatIds(legacy))
  IN [categories |-> categories,
      words |-> WordsFrom(legacy, categories, rand, <<>>)]

\* a variant of LangList that keeps the empty strings
LangListUnfiltered(catWords, lang) ==
  [i \in 1..Len(catWords) |-> catWords[i][lang]]

\* catWords.map(w => w[lang]).filter(Boolean)
LangList(catWords, lang) ==
  SelectSeq([i \in 1..Len(catWords) |-> catWords[i][lang]], Truthy)

RECURSIVE LegacyLang(_, _, _, _)
LegacyLang(data, cats, lang, obj) ==
  IF cats = <<>> THEN obj
  ELSE LegacyLang(data, Tail(cats), lang,
                  ObjSet(obj, Head(cats).id,
                         LangList(WordsOf(data, Head(cats).id), lang)))

convertNewToLegacy(data) ==
  [l \in Range(LANGUAGES) |-> LegacyLang(data, data.categories, l, <<>>)]

(***************************************************************************)
(* Values standing for null                                                *)
(***************************************************************************)
\* data === null.  No dictionary the program builds has an empty category
\* list: the default categories come first and cannot be deleted.
NoData == [categories |-> <<>>, words |-> <<>>]

\* version === null
NoVersion == [version |-> <<>>]

\* handleGenerateWords was not called yet
NoCategory == <<>>

\* editingCell === null
NoCell == [wordIdx |-> 0, field |-> "none"]

\* no publishToGithub call is running
NoPub == [step |-> "idle"]

\* nothing was exported yet
NoDownload == [name |-> "none", content |-> <<>>]

Revisions == {"App", "part_000"}

(***************************************************************************)
(* duplicates (useMemo)                                                    *)
(***************************************************************************)
\* w[l.code]?.toLowerCase()  /  w[l.code]?.toLowerCase().trim()
DupVal(rev, s) == IF rev = "App" THEN toLowerCase(s) ELSE trim(toLowerCase(s))

\* The truthy values of one language in one category, with their locations
\* (index counted from 1).
CatOccurrences(data, rev, cat, lang) ==
  LET ws == WordsOf(data, cat.id)
      all == [i \in 1..Len(ws) |->
                [val |-> DupVal(rev, ws[i][lang]),
                 loc |-> [category |-> cat.id, index |-> i]]]
  IN SelectSeq(all, LAMBDA e : Truthy(e.val))

Occurrences(data, rev, lang) ==
  Concat([c \in 1..Len(data.categories) |->
            CatOccurrences(data, rev, data.categories[c], lang)])

RECURSIVE SeenPush(_, _)
\* if (!seen.has(val)) seen.set(val, []); seen.get(val).push(loc)
SeenPush(seen, occ) ==
  IF occ = <<>> THEN seen
  ELSE SeenPush(ObjSet(seen, Head(occ).val,
                       Append(ObjGetList(seen, Head(occ).val), Head(occ).loc)),
                Tail(occ))

\* a variant of IsDuplicate that asks for three locations
IsDuplicateOfThree(entry) == Len(entry.v) > 2

\* if (locations.length > 1) found.push(...)
IsDuplicate(entry) == Len(entry.v) > 1

FoundIn(data, rev, lang) ==
  LET dup == SelectSeq(SeenPush(<<>>, Occurrences(data, rev, lang)), IsDuplicate)
  IN [i \in 1..Len(dup) |-> [word |-> dup[i].k, lang |-> lang, locations |-> dup[i].v]]

duplicates(data, rev) ==
  IF data = NoData THEN <<>>
  ELSE Concat([l \in 1..Len(LANGUAGES) |-> FoundIn(data, rev, LANGUAGES[l])])

(***************************************************************************)
(* currentWords (useMemo): the rows of the table                           *)
(***************************************************************************)
\* a.intensity - b.intensity < 0, or b.intensity - a.intensity < 0
SortsBefore(order, a, b) ==
  IF order = "asc" THEN a.intensity < b.intensity ELSE a.intensity > b.intensity

\* Array.prototype.sort is stable: a row goes before the first row it sorts
\* before, after every other one.
InsertRow(order, sorted, row) ==
  LET later == {j \in 1..Len(sorted) : SortsBefore(order, row, sorted[j])}
      at == IF later = {} THEN Len(sorted) + 1
            ELSE CHOOSE j \in later : \A k \in later : j <= k
  IN SubSeq(sorted, 1, at - 1) \o <<row>> \o SubSeq(sorted, at, Len(sorted))

RECURSIVE SortRows(_, _, _)
SortRows(order, rows, sorted) ==
  IF rows = <<>> THEN sorted
  ELSE SortRows(order, Tail(rows), InsertRow(order, sorted, Head(rows)))

MatchesSearch(row, query) ==
  LET q == toLowerCase(query) IN
  \E l \in Range(LANGUAGES) : includes(toLowerCase(row[l]), q)

\* A row is the word record with its position in data.words[selectedCategory]
\* (_idx, counted from 1).
RowOf(w, i) ==
  [ru |-> w.ru, en |-> w.en, es |-> w.es, ua |-> w.ua,
   intensity |-> w.intensity, idx |-> i]

currentWordsOf(d, category, filter, query, order) ==
  IF d = NoData THEN <<>>
  ELSE
    LET ws == WordsOf(d, category)
        rows == [i \in 1..Len(ws) |-> RowOf(ws[i], i)]
        inRange == SelectSeq(rows, LAMBDA r : r.intensity >= filter[1]
                                              /\ r.intensity <= filter[2])
        found == IF Truthy(query)
                 THEN SelectSeq(inRange, LAMBDA r : MatchesSearch(r, query))
                 ELSE inRange
    IN IF order # "none" THEN SortRows(order, found, <<>>) ELSE found

(***************************************************************************)
(* Bounds of the model: the inputs the operator and the network supply     *)
(***************************************************************************)
\* categories a dictionary may hold before handleAddCategory is no longer tried
MaxCategories == 5

\* words a category may hold before generated words are no longer added
MaxWords == 3

\* changes of the dictionary, and publishes, the operator makes in one run
MaxEdits == 1

\* what the operator types into a cell
EditValues ==
  { <<>>, <<"A">>, <<"2", ".", "5">>, <<"1", "2">>, <<"0">> }

\* what the operator types as the name of a new category
CategoryNames == { <<"X">>, <<"P", "a", "r", "t", "y">>, <<"x", " ", "1">> }

CategoryEmojis == { "folder" }

\* what the operator types into the search box
SearchQueries == { <<>>, <<"c">> }

\* what the operator types into the two intensity filter inputs
FilterValues == { Tenths(1), Tenths(3), Tenths(10) }

\* <input type="range" min={1} max={10}>
SliderValues == { Tenths(1), Tenths(5), Tenths(10) }

GeneratedWord(s, n) == [ru |-> s, en |-> s, es |-> s, ua |-> s, intensity |-> n]

\* what generateWordsWithAI may resolve to: the parsed JSON of the reply
AIReplies ==
  { << GeneratedWord(<<"g">>, Tenths(3)) >>,
    << GeneratedWord(<<"g">>, Tenths(3)), GeneratedWord(<<"h">>, Tenths(11)) >> }

(***************************************************************************)
(* State                                                                   *)
(***************************************************************************)
VARIABLES
  revision,          \* which revision of the component runs
  variant, data, version, loading, hasChanges,
  selectedCategory, searchQuery, intensityFilter, sortByIntensity,
  newCatIntensity, editingCell, editValue, selectedWords,
  addWordsOpen, generating, generatedWords, generatedSelection,
  generatedFor,      \* the category handleGenerateWords was last called for
  pub,               \* the running publishToGithub call, or NoPub
  pending,           \* the loadDictionary / loadVersion calls awaiting fetch
  repoWords,         \* the words files of the repository, by file name
  repoVersion,       \* the version files of the repository, by file name
  cache,             \* localStorage: the cache entry of each variant, or NoData
  download,          \* the file exportJson last handed to the browser
  edits              \* how many times the operator changed the dictionary

vars ==
  << revision, variant, data, version, loading, hasChanges,
     selectedCategory, searchQuery, intensityFilter, sortByIntensity,
     newCatIntensity, editingCell, editValue, selectedWords,
     addWordsOpen, generating, generatedWords, generatedSelection, generatedFor,
     pub, pending, repoWords, repoVersion, cache, download, edits >>

viewVars == << searchQuery, intensityFilter, sortByIntensity >>

editVars == << editingCell, editValue >>

aiVars == << addWordsOpen, generating, generatedWords, generatedSelection,
            generatedFor >>

repoVars == << repoWords, repoVersion >>

currentWords ==
  currentWordsOf(data, selectedCategory, intensityFilter, searchQuery, sortByIntensity)

\* data?.categories.find(c => c.id === selectedCategory)
HasCurrentCategory == selectedCategory \in CatIds(data.categories)

\* if (loading) return <div>...</div>: nothing of the editor is on screen
Visible == ~loading

\* The cell editor saves on blur (onBlur={saveEdit}), so every other control
\* is used with no cell being edited; the add-words dialog of part_000
\* covers the editor (fixed inset-0), so the editor is used with it closed.
Idle == Visible /\ editingCell = NoCell /\ ~addWordsOpen

(***************************************************************************)
(* Cache helpers (part_000)                                                *)
(***************************************************************************)
\* saveToCache: the entry is JSON.stringify(data), read back by JSON.parse;
\* the dictionaries of the model hold strings and finite numbers only, which
\* JSON keeps.
saveToCache(c, v, d) == [c EXCEPT ![v] = d]

\* an entry of localStorage that JSON.parse rejects
Unparseable == [categories |-> <<>>, words |-> <<>>, text |-> "{"]

\* a variant of loadFromCache without the try/catch around JSON.parse
loadFromCacheUnguarded(c, v) == c[v]

\* if (cached) { try { return JSON.parse(cached) } catch { return null } }
\* return null
loadFromCache(c, v) == IF c[v] = Unparseable THEN NoData ELSE c[v]

\* a variant of clearCache that removes nothing
clearCacheKeeps(c, v) == c

clearCache(c, v) == [c EXCEPT ![v] = NoData]

\* useEffect(() => { if (data && hasChanges) saveToCache(variant, data) },
\*           [data, hasChanges, variant])
\* applied by every action that sets data, hasChanges or variant
SaveEffect(c, v, d, h) ==
  IF revision = "part_000" /\ d # NoData /\ h THEN saveToCache(c, v, d) ELSE c

(***************************************************************************)
(* Loading                                                                 *)
(***************************************************************************)
LoadRequest(v) == [kind |-> "loadDictionary", variant |-> v]

VersionRequest(v) == [kind |-> "loadVersion", variant |-> v]

RECURSIVE TotalWords(_, _)
TotalWords(legacy, cats) ==
  IF cats = <<>> THEN 0
  ELSE MaxLenOf(legacy, Head(cats).id) + TotalWords(legacy, Tail(cats))

\* the sequences of draws convertLegacyToNew may read for this legacy file
RandomDraws(legacy, v) ==
  [1..TotalWords(legacy, PushMissing(DefaultCats(v), AllCatIds(legacy)))
     -> 0..(RandDen - 1)]

\* The refresh button: loadDictionary() / loadDictionary(true)
RefreshDictionary ==
  /\ Idle
  /\ cache' = IF revision = "part_000" THEN clearCache(cache, variant) ELSE cache
  /\ loading' = TRUE
  /\ pending' = pending \cup {LoadRequest(variant)}
  /\ UNCHANGED << revision, variant, data, version, hasChanges, selectedCategory,
                  viewVars, newCatIntensity, editVars, selectedWords, aiVars,
                  pub, repoVars, download, edits >>

\* Both fetches of loadDictionary answered with ok
LoadDictionaryOk(req) ==
  /\ req \in pending
  /\ req.kind = "loadDictionary"
  /\ \E rand \in RandomDraws(repoWords[WordsFile(req.variant)], req.variant) :
       LET newData == convertLegacyToNew(repoWords[WordsFile(req.variant)],
                                         req.variant, rand)
       IN /\ data' = newData
          /\ cache' = IF revision = "part_000"
                      THEN saveToCache(cache, req.variant, newData) ELSE cache
  /\ version' = repoVersion[VersionFile(req.variant)]
  /\ hasChanges' = FALSE
  /\ loading' = FALSE
  /\ pending' = pending \ {req}
  /\ UNCHANGED << revision, variant, selectedCategory, viewVars, newCatIntensity,
                  editVars, selectedWords, aiVars, pub, repoVars, download, edits >>

\* A fetch of loadDictionary answered with a non-OK status, or threw
LoadDictionaryFail(req) ==
  /\ req \in pending
  /\ req.kind = "loadDictionary"
  /\ loading' = FALSE
  /\ pending' = pending \ {req}
  /\ UNCHANGED << revision, variant, data, version, hasChanges, selectedCategory,
                  viewVars, newCatIntensity, editVars, selectedWords, aiVars,
                  pub, repoVars, cache, download, edits >>

\* loadVersion (part_000): if (res.ok) setVersion(await res.json())
LoadVersionDone(req, ok) ==
  /\ req \in pending
  /\ req.kind = "loadVersion"
  /\ version' = IF ok THEN repoVersion[VersionFile(req.variant)] ELSE version
  /\ pending' = pending \ {req}
  /\ UNCHANGED << revision, variant, data, loading, hasChanges, selectedCategory,
                  viewVars, newCatIntensity, editVars, selectedWords, aiVars,
                  pub, repoVars, cache, download, edits >>

\* The variant buttons, with the effects that depend on [variant]:
\* the load effect, setSelectedCategory(cats[0].id) and, in part_000, the
\* save-to-cache effect, which runs with the new variant and the data of
\* the render it belongs to.
SetVariant(v) ==
  /\ Idle
  /\ v # variant
  /\ variant' = v
  /\ selectedCategory' = DefaultCats(v)[1].id
  /\ IF revision = "part_000" /\ loadFromCache(cache, v) # NoData
     THEN \* setData(cached); setLoading(false); loadVersion().  The save
          \* effect first writes the old data under the new key and, data
          \* having changed, runs again with the cached data.
          /\ data' = loadFromCache(cache, v)
          /\ loading' = FALSE
          /\ pending' = pending \cup {VersionRequest(v)}
          /\ cache' = SaveEffect(SaveEffect(cache, v, data, hasChanges),
                                 v, data', hasChanges)
     ELSE \* loadDictionary()
          /\ data' = data
          /\ loading' = TRUE
          /\ pending' = pending \cup {LoadRequest(v)}
          /\ cache' = SaveEffect(cache, v, data, hasChanges)
  /\ UNCHANGED << revision, version, hasChanges, viewVars, newCatIntensity,
                  editVars, selectedWords, aiVars, pub, repoVars, download, edits >>

(***************************************************************************)
(* The sidebar and the table                                               *)
(***************************************************************************)
\* A category button: setSelectedCategory(cat.id); setSelectedWords(new Set())
SelectCategory(c) ==
  /\ Idle
  /\ c \in CatIds(data.categories)
  /\ selectedCategory' = c
  /\ selectedWords' = {}
  /\ UNCHANGED << revision, variant, data, version, loading, hasChanges, viewVars,
                  newCatIntensity, editVars, aiVars, pub, pending, repoVars,
                  cache, download, edits >>

\* The checkbox of row r: add or delete word._idx
ToggleWord(r) ==
  /\ Idle
  /\ r \in 1..Len(currentWords)
  /\ LET i == currentWords[r].idx
     IN selectedWords' = IF i \in selectedWords THEN selectedWords \ {i}
                         ELSE selectedWords \cup {i}
  /\ UNCHANGED << revision, variant, data, version, loading, hasChanges,
                  selectedCategory, viewVars, newCatIntensity, editVars, aiVars,
                  pub, pending, repoVars, cache, download, edits >>

\* The checkbox of the table head
ToggleAllWords(checked) ==
  /\ Idle
  /\ selectedWords' = IF checked
                      THEN {currentWords[r].idx : r \in 1..Len(currentWords)}
                      ELSE {}
  /\ UNCHANGED << revision, variant, data, version, loading, hasChanges,
                  selectedCategory, viewVars, newCatIntensity, editVars, aiVars,
                  pub, pending, repoVars, cache, download, edits >>

SetSearchQuery(q) ==
  /\ Idle
  /\ searchQuery' = q
  /\ UNCHANGED << revision, variant, data, version, loading, hasChanges,
                  selectedCategory, intensityFilter, sortByIntensity,
                  newCatIntensity, editVars, selectedWords, aiVars, pub, pending,
                  repoVars, cache, download, edits >>

\* The two inputs of the intensity filter
SetIntensityFilter(which, v) ==
  /\ Idle
  /\ intensityFilter' = [intensityFilter EXCEPT ![which] = v]
  /\ UNCHANGED << revision, variant, data, version, loading, hasChanges,
                  selectedCategory, searchQuery, sortByIntensity,
                  newCatIntensity, editVars, selectedWords, aiVars, pub, pending,
                  repoVars, cache, download, edits >>

\* The sort button of the toolbar (asc, desc, off) and the table head (asc, desc)
ToggleSort(fromHead) ==
  /\ Idle
  /\ sortByIntensity' =
       IF sortByIntensity = "asc" THEN "desc"
       ELSE IF sortByIntensity = "desc" /\ ~fromHead THEN "none"
       ELSE "asc"
  /\ UNCHANGED << revision, variant, data, version, loading, hasChanges,
                  selectedCategory, searchQuery, intensityFilter,
                  newCatIntensity, editVars, selectedWords, aiVars, pub, pending,
                  repoVars, cache, download, edits >>

(***************************************************************************)
(* Categories                                                              *)
(***************************************************************************)
RECURSIVE ReplaceSpaces(_)
\* .replace(/\s+/g, '_')
ReplaceSpaces(s) ==
  IF s = <<>> THEN <<>>
  ELSE IF IsSpace(Head(s)) THEN <<"_">> \o ReplaceSpaces(trimStart(s))
  ELSE <<Head(s)>> \o ReplaceSpaces(Tail(s))

\* a character /[^a-z0-9_а-яё]/gi leaves in place
IsIdChar(c) == LowerChar(c) \in Range(LowerLetters) \/ IsDigit(c) \/ c = "_"

\* name.toLowerCase().replace(/\s+/g, '_').replace(/[^a-z0-9_а-яё]/gi, '')
CategoryId(name) == SelectSeq(ReplaceSpaces(toLowerCase(name)), IsIdChar)

\* a variant of HasCategory that never finds the id
HasCategoryNever(categories, id) == FALSE

\* data.categories.find(c => c.id === id)
HasCategory(categories, id) == id \in CatIds(categories)

handleAddCategory(name, emoji) ==
  /\ Idle
  /\ edits < MaxEdits
  /\ data # NoData
  /\ Truthy(name)
  /\ Len(data.categories) < MaxCategories
  /\ LET id == CategoryId(name)
         cat == [id |-> id, name |-> name, emoji |-> emoji,
                 intensityMin |-> newCatIntensity[1],
                 intensityMax |-> newCatIntensity[2]]
     IN IF HasCategory(data.categories, id)
        THEN \* alert('...'); return
             UNCHANGED << data, selectedCategory, hasChanges, cache, edits >>
        ELSE /\ data' = [categories |-> Append(data.categories, cat),
                         words |-> WithWords(data.words, id, <<>>)]
             /\ selectedCategory' = id
             /\ hasChanges' = TRUE
             /\ cache' = SaveEffect(cache, variant, data', TRUE)
             /\ edits' = edits + 1
  /\ UNCHANGED << revision, variant, version, loading, viewVars, newCatIntensity,
                  editVars, selectedWords, aiVars, pub, pending, repoVars,
                  download >>

\* a variant of SetNewCatMin that leaves the "to" slider where it is
SetNewCatMinOnly(v) ==
  /\ Idle
  /\ newCatIntensity' = << v, newCatIntensity[2] >>
  /\ UNCHANGED << revision, variant, data, version, loading, hasChanges,
                  selectedCategory, viewVars, editVars, selectedWords, aiVars,
                  pub, pending, repoVars, cache, download, edits >>

\* The "from" slider of the add-category dialog
SetNewCatMin(v) ==
  /\ Idle
  /\ newCatIntensity' = << v, Max2(v, newCatIntensity[2]) >>
  /\ UNCHANGED << revision, variant, data, version, loading, hasChanges,
                  selectedCategory, viewVars, editVars, selectedWords, aiVars,
                  pub, pending, repoVars, cache, download, edits >>

\* The "to" slider of the add-category dialog
SetNewCatMax(v) ==
  /\ Idle
  /\ newCatIntensity' = << Min2(newCatIntensity[1], v), v >>
  /\ UNCHANGED << revision, variant, data, version, loading, hasChanges,
                  selectedCategory, viewVars, editVars, selectedWords, aiVars,
                  pub, pending, repoVars, cache, download, edits >>

\* The delete button is rendered for the categories that are no default of
\* either variant.
Deletable(catId) ==
  /\ catId \notin CatIds(DEFAULT_ADULT_CATEGORIES)
  /\ catId \notin CatIds(DEFAULT_FAMILY_CATEGORIES)

\* handleDeleteCategory with the confirm dialog accepted
handleDeleteCategory(catId) ==
  /\ Idle
  /\ edits < MaxEdits
  /\ data # NoData
  /\ catId \in CatIds(data.categories)
  /\ Deletable(catId)
  /\ data' = [categories |-> SelectSeq(data.categories, LAMBDA c : c.id # catId),
              words |-> [c \in DOMAIN data.words \ {catId} |-> data.words[c]]]
  /\ selectedCategory' = data.categories[1].id
  /\ hasChanges' = TRUE
  /\ cache' = SaveEffect(cache, variant, data', TRUE)
  /\ edits' = edits + 1
  /\ UNCHANGED << revision, variant, version, loading, viewVars, newCatIntensity,
                  editVars, selectedWords, aiVars, pub, pending, repoVars,
                  download >>

(***************************************************************************)
(* Words                                                                   *)
(***************************************************************************)
\* a variant of splice that drops the last record, whatever the index
SpliceLast(words, idx) == SubSeq(words, 1, Len(words) - 1)

\* words.splice(idx, 1)
Splice(words, idx) ==
  IF idx \in 1..Len(words)
  THEN SubSeq(words, 1, idx - 1) \o SubSeq(words, idx + 1, Len(words))
  ELSE words

\* The delete button of row r: handleDeleteWord(word._idx)
handleDeleteWord(r) ==
  /\ Idle
  /\ edits < MaxEdits
  /\ data # NoData
  /\ r \in 1..Len(currentWords)
  /\ data' = [data EXCEPT !.words =
                WithWords(data.words, selectedCategory,
                          Splice(WordsOf(data, selectedCategory), currentWords[r].idx))]
  /\ hasChanges' = TRUE
  /\ cache' = SaveEffect(cache, variant, data', TRUE)
  /\ edits' = edits + 1
  /\ UNCHANGED << revision, variant, version, loading, selectedCategory, viewVars,
                  newCatIntensity, editVars, selectedWords, aiVars, pub, pending,
                  repoVars, download >>

EditFields == Range(LANGUAGES) \cup {"intensity"}

\* String(word[field])
FieldString(row, field) ==
  IF field = "intensity" THEN NumberToString(row.intensity) ELSE row[field]

\* A click on a cell of row r
startEdit(r, field) ==
  /\ Idle
  /\ edits < MaxEdits
  /\ r \in 1..Len(currentWords)
  /\ field \in EditFields
  /\ editingCell' = [wordIdx |-> r, field |-> field]
  /\ editValue' = FieldString(currentWords[r], field)
  /\ UNCHANGED << revision, variant, data, version, loading, hasChanges,
                  selectedCategory, viewVars, newCatIntensity, selectedWords,
                  aiVars, pub, pending, repoVars, cache, download, edits >>

\* Typing in the cell editor
SetEditValue(s) ==
  /\ Visible
  /\ editingCell # NoCell
  /\ editValue' = s
  /\ UNCHANGED << revision, variant, data, version, loading, hasChanges,
                  selectedCategory, viewVars, newCatIntensity, editingCell,
                  selectedWords, aiVars, pub, pending, repoVars, cache, download, edits >>

\* Math.min(10, Math.max(1, Number(editValue) || 5))
IntensityOf(value) ==
  LET n == Number(value)
      v == IF n.nan \/ n.val = 0 THEN Tenths(5) ELSE n.val
  IN Min2(Tenths(10), Max2(Tenths(1), v))

\* a variant of ActualIdx that takes the row number for the stored index
ActualIdxOfRow(rows, cell) == cell.wordIdx

\* The index saveEdit writes at: currentWords[editingCell.wordIdx]._idx
ActualIdx(rows, cell) == rows[cell.wordIdx].idx

\* Enter, or the cell editor losing the focus
saveEdit ==
  /\ Visible
  /\ editingCell # NoCell
  /\ data # NoData
  /\ LET actualIdx == ActualIdx(currentWords, editingCell)
         words == WordsOf(data, selectedCategory)
         newValue == IF editingCell.field = "intensity"
                     THEN IntensityOf(editValue) ELSE editValue
     IN data' = [data EXCEPT !.words =
                   WithWords(data.words, selectedCategory,
                             [words EXCEPT ![actualIdx] =
                                [@ EXCEPT ![editingCell.field] = newValue]])]
  /\ editingCell' = NoCell
  /\ editValue' = <<>>
  /\ hasChanges' = TRUE
  /\ cache' = SaveEffect(cache, variant, data', TRUE)
  /\ edits' = edits + 1
  /\ UNCHANGED << revision, variant, version, loading, selectedCategory, viewVars,
                  newCatIntensity, selectedWords, aiVars, pub, pending, repoVars,
                  download >>

\* a variant of Picked that takes the first ticked record only
PickedFirst(words, sel) ==
  LET at == SelectSeq([i \in 1..Len(words) |-> i], LAMBDA i : i \in sel)
  IN [k \in 1..Min2(1, Len(at)) |-> words[at[k]]]

\* sourceWords.forEach((w, i) => selectedWords.has(i) ? toMove : remaining)
Picked(words, sel) ==
  LET at == SelectSeq([i \in 1..Len(words) |-> i], LAMBDA i : i \in sel)
  IN [k \in 1..Len(at) |-> words[at[k]]]

Remaining(words, sel) ==
  LET at == SelectSeq([i \in 1..Len(words) |-> i], LAMBDA i : i \notin sel)
  IN [k \in 1..Len(at) |-> words[at[k]]]

\* A button of the move dialog, which lists the categories other than the
\* selected one; the dialog opens from a button shown while words are ticked.
moveSelectedToCategory(targetCat) ==
  /\ Idle
  /\ edits < MaxEdits
  /\ data # NoData
  /\ selectedWords # {}
  /\ targetCat \in CatIds(data.categories) \ {selectedCategory}
  /\ LET sourceWords == WordsOf(data, selectedCategory)
         targetWords == WordsOf(data, targetCat)
         moved == WithWords(data.words, selectedCategory,
                            Remaining(sourceWords, selectedWords))
     IN data' = [data EXCEPT !.words =
                   WithWords(moved, targetCat,
                             targetWords \o Picked(sourceWords, selectedWords))]
  /\ selectedWords' = {}
  /\ hasChanges' = TRUE
  /\ cache' = SaveEffect(cache, variant, data', TRUE)
  /\ edits' = edits + 1
  /\ UNCHANGED << revision, variant, version, loading, selectedCategory, viewVars,
                  newCatIntensity, editVars, aiVars, pub, pending, repoVars,
                  download >>

\* handleBulkDelete (part_000) with the confirm dialog accepted
handleBulkDelete ==
  /\ revision = "part_000"
  /\ Idle
  /\ edits < MaxEdits
  /\ data # NoData
  /\ selectedWords # {}
  /\ data' = [data EXCEPT !.words =
                WithWords(data.words, selectedCategory,
                          Remaining(WordsOf(data, selectedCategory), selectedWords))]
  /\ selectedWords' = {}
  /\ hasChanges' = TRUE
  /\ cache' = SaveEffect(cache, variant, data', TRUE)
  /\ edits' = edits + 1
  /\ UNCHANGED << revision, variant, version, loading, selectedCategory, viewVars,
                  newCatIntensity, editVars, aiVars, pub, pending, repoVars,
                  download >>

\* a variant of RestLocations that takes the last location of each duplicate
LastLocations(dups) ==
  { dups[d].locations[Len(dups[d].locations)] : d \in 1..Len(dups) }

\* const [, ...remove] = dup.locations, over all duplicates
RestLocations(dups) ==
  UNION { { dups[d].locations[k] : k \in 2..Len(dups[d].locations) } :
          d \in 1..Len(dups) }

\* toRemove[catId]
ToRemove(dups, catId) ==
  { loc.index : loc \in { l \in RestLocations(dups) : l.category = catId } }

RECURSIVE FilterCategories(_, _, _)
\* data.categories.forEach(cat => newWords[cat.id] = words.filter(...))
FilterCategories(cats, dups, newWords) ==
  IF cats = <<>> THEN newWords
  ELSE LET id == Head(cats).id
           words == IF id \in DOMAIN newWords THEN newWords[id] ELSE <<>>
       IN FilterCategories(Tail(cats), dups,
                           WithWords(newWords, id,
                                     Remaining(words, ToRemove(dups, id))))

\* The number in the alert of removeDuplicates: duplicates.length
RemovedAlert(dups) == Len(dups)

\* The button of the duplicates dialog, which opens from a button shown
\* while duplicates.length > 0; it ends with alert(RemovedAlert(duplicates))
removeDuplicates ==
  /\ Idle
  /\ edits < MaxEdits
  /\ data # NoData
  /\ Len(duplicates(data, revision)) # 0
  /\ data' = [data EXCEPT !.words =
                FilterCategories(data.categories, duplicates(data, revision),
                                 data.words)]
  /\ hasChanges' = TRUE
  /\ cache' = SaveEffect(cache, variant, data', TRUE)
  /\ edits' = edits + 1
  /\ UNCHANGED << revision, variant, version, loading, selectedCategory, viewVars,
                  newCatIntensity, editVars, selectedWords, aiVars, pub, pending,
                  repoVars, download >>

(***************************************************************************)
(* AI generation (part_000)                                                *)
(***************************************************************************)
OpenAddWords ==
  /\ revision = "part_000"
  /\ Idle
  /\ ~addWordsOpen
  /\ addWordsOpen' = TRUE
  /\ UNCHANGED << revision, variant, data, version, loading, hasChanges,
                  selectedCategory, viewVars, newCatIntensity, editVars,
                  selectedWords, generating, generatedWords, generatedSelection,
                  generatedFor, pub, pending, repoVars, cache, download, edits >>

\* onClose of the add-words dialog
CloseAddWords ==
  /\ Visible
  /\ addWordsOpen
  /\ addWordsOpen' = FALSE
  /\ generatedWords' = <<>>
  /\ generatedSelection' = {}
  /\ UNCHANGED << revision, variant, data, version, loading, hasChanges,
                  selectedCategory, viewVars, newCatIntensity, editVars,
                  selectedWords, generating, generatedFor, pub, pending, repoVars,
                  cache, download, edits >>

\* handleGenerateWords up to its await (an API key is entered): the call
\* takes the name and the intensity range of currentCategory
handleGenerateWords ==
  /\ Visible
  /\ addWordsOpen
  /\ generatedWords = <<>>
  /\ ~generating
  /\ HasCurrentCategory
  /\ generating' = TRUE
  /\ generatedFor' = selectedCategory
  /\ UNCHANGED << revision, variant, data, version, loading, hasChanges,
                  selectedCategory, viewVars, newCatIntensity, editVars,
                  selectedWords, addWordsOpen, generatedWords, generatedSelection,
                  pub, pending, repoVars, cache, download, edits >>

\* generateWordsWithAI resolved
GenerateWordsOk(words) ==
  /\ generating
  /\ generatedWords' = words
  /\ generatedSelection' = 1..Len(words)
  /\ generating' = FALSE
  /\ UNCHANGED << revision, variant, data, version, loading, hasChanges,
                  selectedCategory, viewVars, newCatIntensity, editVars,
                  selectedWords, addWordsOpen, generatedFor, pub, pending,
                  repoVars, cache, download, edits >>

\* generateWordsWithAI rejected: alert, finally
GenerateWordsFail ==
  /\ generating
  /\ generating' = FALSE
  /\ UNCHANGED << revision, variant, data, version, loading, hasChanges,
                  selectedCategory, viewVars, newCatIntensity, editVars,
                  selectedWords, addWordsOpen, generatedWords, generatedSelection,
                  generatedFor, pub, pending, repoVars, cache, download, edits >>

\* A checkbox of the preview of the generated words
ToggleGenerated(i) ==
  /\ Visible
  /\ addWordsOpen
  /\ i \in 1..Len(generatedWords)
  /\ generatedSelection' = IF i \in generatedSelection
                           THEN generatedSelection \ {i}
                           ELSE generatedSelection \cup {i}
  /\ UNCHANGED << revision, variant, data, version, loading, hasChanges,
                  selectedCategory, viewVars, newCatIntensity, editVars,
                  selectedWords, addWordsOpen, generating, generatedWords,
                  generatedFor, pub, pending, repoVars, cache, download, edits >>

handleAddGeneratedWords ==
  /\ Visible
  /\ edits < MaxEdits
  /\ addWordsOpen
  /\ data # NoData
  /\ Len(generatedWords) # 0
  /\ generatedSelection # {}     \* disabled={generatedSelection.size === 0}
  /\ Len(WordsOf(data, selectedCategory)) + Len(generatedWords) <= MaxWords
  /\ data' = [data EXCEPT !.words =
                WithWords(data.words, selectedCategory,
                          WordsOf(data, selectedCategory)
                            \o Picked(generatedWords, generatedSelection))]
  /\ generatedWords' = <<>>
  /\ generatedSelection' = {}
  /\ addWordsOpen' = FALSE
  /\ hasChanges' = TRUE
  /\ cache' = SaveEffect(cache, variant, data', TRUE)
  /\ edits' = edits + 1
  /\ UNCHANGED << revision, variant, version, loading, selectedCategory, viewVars,
                  newCatIntensity, editVars, selectedWords, generating,
                  generatedFor, pub, pending, repoVars, download >>

(***************************************************************************)
(* Export and publish                                                      *)
(***************************************************************************)
exportJson ==
  /\ Idle
  /\ data # NoData
  /\ download' = [name |-> WordsFile(variant), content |-> convertNewToLegacy(data)]
  /\ UNCHANGED << revision, variant, data, version, loading, hasChanges,
                  selectedCategory, viewVars, newCatIntensity, editVars,
                  selectedWords, aiVars, pub, pending, repoVars, cache, edits >>

\* (version?.version || '1.0.0').split('.').map(Number), [2]++, join('.')
NextVersion(ver) ==
  LET parts == IF ver = NoVersion THEN <<1, 0, 0>> ELSE ver.version
  IN [version |-> [parts EXCEPT ![3] = @ + 1]]

\* publishToGithub up to its first await (a token is entered): the legacy
\* data, the new version and the file names are fixed here
publishToGithub ==
  /\ Idle
  /\ data # NoData
  /\ pub = NoPub
  /\ edits < MaxEdits
  /\ pub' = [step |-> "putWords", legacy |-> convertNewToLegacy(data),
             newVersionInfo |-> NextVersion(version), variant |-> variant]
  /\ edits' = edits + 1
  /\ UNCHANGED << revision, variant, data, version, loading, hasChanges,
                  selectedCategory, viewVars, newCatIntensity, editVars,
                  selectedWords, aiVars, pending, repoVars, cache, download >>

PutOutcomes == {"ok", "rejected", "threw"}

\* The PUT of the words file answered: fetch resolves on any HTTP status
\* and the response is not looked at; it rejects on a network error.
PublishPutWords(outcome) ==
  /\ pub # NoPub
  /\ pub.step = "putWords"
  /\ repoWords' = IF outcome = "ok"
                  THEN [repoWords EXCEPT ![WordsFile(pub.variant)] = pub.legacy]
                  ELSE repoWords
  /\ pub' = IF outcome = "threw" THEN NoPub ELSE [pub EXCEPT !.step = "putVersion"]
  /\ UNCHANGED << revision, variant, data, version, loading, hasChanges,
                  selectedCategory, viewVars, newCatIntensity, editVars,
                  selectedWords, aiVars, pending, repoVersion, cache, download, edits >>

\* The PUT of the version file answered, and the rest of publishToGithub
PublishPutVersion(outcome) ==
  /\ pub # NoPub
  /\ pub.step = "putVersion"
  /\ repoVersion' = IF outcome = "ok"
                    THEN [repoVersion EXCEPT ![VersionFile(pub.variant)] =
                            pub.newVersionInfo]
                    ELSE repoVersion
  /\ IF outcome = "threw"
     THEN UNCHANGED << version, hasChanges, cache >>
     ELSE /\ version' = pub.newVersionInfo
          /\ hasChanges' = FALSE
          /\ cache' = IF revision = "part_000"
                      THEN clearCache(cache, pub.variant) ELSE cache
  /\ pub' = NoPub
  /\ UNCHANGED << revision, variant, data, loading, selectedCategory, viewVars,
                  newCatIntensity, editVars, selectedWords, aiVars, pending,
                  repoWords, download, edits >>

(***************************************************************************)
(* The initial state: the component is mounted, its first load is running  *)
(***************************************************************************)
\* The state a specification starts from, given the files of the repository
\* and the state of the dictionary
StartsWith(words, v, d, changed) ==
  /\ revision \in Revisions
  /\ variant = v
  /\ data = d
  /\ version = IF d = NoData THEN NoVersion ELSE [version |-> <<1, 0, 0>>]
  /\ loading = (d = NoData)
  /\ hasChanges = changed
  /\ selectedCategory = DefaultCats(v)[1].id
  /\ searchQuery = <<>>
  /\ intensityFilter = << Tenths(1), Tenths(10) >>
  /\ sortByIntensity = "none"
  /\ newCatIntensity = << Tenths(3), Tenths(7) >>
  /\ editingCell = NoCell
  /\ editValue = <<>>
  /\ selectedWords = {}
  /\ addWordsOpen = FALSE
  /\ generating = FALSE
  /\ generatedWords = <<>>
  /\ generatedSelection = {}
  /\ generatedFor = NoCategory
  /\ pub = NoPub
  /\ pending = IF d = NoData THEN {LoadRequest(v)} ELSE {}
  /\ repoWords = words
  /\ repoVersion = [f \in {VersionFile(x) : x \in Variants} |->
                      [version |-> <<1, 0, 0>>]]
  /\ cache = [x \in Variants |-> NoData]
  /\ download = NoDownload
  /\ edits = 0

Obj1(k1, v1) == << [k |-> k1, v |-> v1] >>

Obj2(k1, v1, k2, v2) == << [k |-> k1, v |-> v1], [k |-> k2, v |-> v2] >>

\* The words files the editor is run against
AdultWords ==
  [ru |-> << [k |-> party, v |-> << <<"a">>, <<"A">> >>],
             [k |-> dirty, v |-> << >>],
             [k |-> <<"x">>, v |-> << >>] >>,
   en |-> Obj1(party, << <<"b">>, <<"c">> >>),
   es |-> Obj1(party, << <<"a">> >>),
   ua |-> Obj1(party, << >>)]

FamilyWords ==
  [ru |-> Obj1(movies, << <<"m">> >>),
   en |-> Obj1(movies, << <<"m">> >>),
   es |-> Obj1(movies, << >>),
   ua |-> Obj1(movies, << >>)]

RepoFiles ==
  [f \in {WordsFile(x) : x \in Variants} |->
     IF f = WordsFile("adult") THEN AdultWords ELSE FamilyWords]

\* useState('adult'), useState(null), useState(true), ...; the load effect
\* has called loadDictionary
Init == StartsWith(RepoFiles, "adult", NoData, FALSE)

(***************************************************************************)
(* Next-state relation                                                     *)
(***************************************************************************)
Loads ==
  \/ RefreshDictionary
  \/ \E req \in pending : LoadDictionaryOk(req)
  \/ \E req \in pending : LoadDictionaryFail(req)
  \/ \E req \in pending, ok \in BOOLEAN : LoadVersionDone(req, ok)
  \/ \E v \in Variants : SetVariant(v)

Views ==
  \/ \E q \in SearchQueries : SetSearchQuery(q)
  \/ \E w \in 1..2, v \in FilterValues : SetIntensityFilter(w, v)
  \/ \E h \in BOOLEAN : ToggleSort(h)

Selections ==
  \/ \E c \in CatIds(data.categories) : SelectCategory(c)
  \/ \E r \in 1..Len(currentWords) : ToggleWord(r)
  \/ \E b \in BOOLEAN : ToggleAllWords(b)

CellEdits ==
  \/ \E r \in 1..Len(currentWords), f \in EditFields : startEdit(r, f)
  \/ \E s \in EditValues : SetEditValue(s)
  \/ saveEdit

WordEdits ==
  \/ \E r \in 1..Len(currentWords) : handleDeleteWord(r)
  \/ \E c \in CatIds(data.categories) : moveSelectedToCategory(c)
  \/ handleBulkDelete
  \/ removeDuplicates

CategoryEdits ==
  \/ \E n \in CategoryNames, e \in CategoryEmojis : handleAddCategory(n, e)
  \/ \E c \in CatIds(data.categories) : handleDeleteCategory(c)
  \/ \E v \in SliderValues : SetNewCatMin(v)
  \/ \E v \in SliderValues : SetNewCatMax(v)

Generation ==
  \/ OpenAddWords
  \/ CloseAddWords
  \/ handleGenerateWords
  \/ \E w \in AIReplies : GenerateWordsOk(w)
  \/ GenerateWordsFail
  \/ \E i \in 1..Len(generatedWords) : ToggleGenerated(i)
  \/ handleAddGeneratedWords

Publishing ==
  \/ exportJson
  \/ publishToGithub
  \/ \E o \in PutOutcomes : PublishPutWords(o)
  \/ \E o \in PutOutcomes : PublishPutVersion(o)

Next ==
  \/ Loads
  \/ Views
  \/ Selections
  \/ CellEdits
  \/ WordEdits
  \/ CategoryEdits
  \/ Generation
  \/ Publishing

Spec == Init /\ [][Next]_vars

(***************************************************************************)
(* Specifications of the conversions.  They start from a state the editor  *)
(* can be in (a dictionary the operator has loaded and edited, a words     *)
(* file somebody has pushed to the repository) and take the steps that     *)
(* apply the conversion.                                                   *)
(***************************************************************************)
\* the longest word list of the dictionaries a specification starts from
MaxPoolWords == 2

SeqsUpTo(S, n) == UNION { [1..k -> S] : k \in 0..n }

\* The dictionary with these categories and, in order, these word lists
DictOf(cats, lists) ==
  [categories |-> cats,
   words |-> [id \in CatIds(cats) |->
                lists[CHOOSE i \in 1..Len(cats) : cats[i].id = id]]]

\* what handleAddCategory('X', 'folder') appends with the sliders untouched
CustomCategory ==
  [id |-> <<"x">>, name |-> <<"X">>, emoji |-> "folder",
   intensityMin |-> Tenths(3), intensityMax |-> Tenths(7)]

EditedWords ==
  [ru : { <<>>, <<"a">> }, en : { <<>>, <<"A">> }, es : { <<"c">> },
   ua : { <<>> }, intensity : { Tenths(4), 25 }]

\* Dictionaries of variant v after some edits: the first category holds up
\* to MaxPoolWords words, a category may have been added
EditedDicts(v) ==
  { DictOf(cats, [i \in 1..Len(cats) |-> IF i = 1 THEN ws ELSE <<>>]) :
      cats \in { DefaultCats(v), Append(DefaultCats(v), CustomCategory) },
      ws \in SeqsUpTo(EditedWords, MaxPoolWords) }

InitEdited ==
  \E v \in Variants : \E d \in EditedDicts(v) : StartsWith(RepoFiles, v, d, TRUE)

\* exportJson applied to an edited dictionary
SpecExport == InitEdited /\ [][exportJson]_vars

NextPublishReload ==
  \/ publishToGithub
  \/ \E o \in PutOutcomes : PublishPutWords(o)
  \/ \E o \in PutOutcomes : PublishPutVersion(o)
  \/ RefreshDictionary
  \/ \E req \in pending : LoadDictionaryOk(req)
  \/ \E req \in pending : LoadDictionaryFail(req)

\* An edited dictionary is published and the editor reloads
SpecPublishReload == InitEdited /\ [][NextPublishReload]_vars

LegacyLists == { << >>, << <<"a">> >>, << <<"a">>, <<"b">> >> }

\* The objects a language of a words file may hold: one category, or two
\* with the other one first
LegacyObjs(lists) ==
  {<<>>}
    \cup { Obj1(party, l) : l \in lists }
    \cup { Obj2(movies, l1, party, l2) : l1 \in lists, l2 \in lists }

\* Words files: all four languages, or with no "ua" member
LegacyFiles ==
  { [ru |-> r, en |-> e, es |-> x, ua |-> Obj1(party, << <<"a">> >>)] :
      r \in LegacyObjs(LegacyLists \cup { << <<>>, <<"b">> >> }),
      e \in { <<>>, Obj1(party, << <<"A">>, <<"B">> >>),
              Obj1(party, << <<"A">>, <<"B">>, <<"C">> >>),
              Obj1(movies, << <<"A">> >>) },
      x \in { <<>>, Obj1(movies, << <<"c">> >>) } }
    \cup
  { [ru |-> r, en |-> Obj1(party, << <<"A">> >>), es |-> <<>>] :
      r \in LegacyObjs(LegacyLists) }

InitLegacy ==
  \E v \in Variants : \E L \in LegacyFiles :
    StartsWith([RepoFiles EXCEPT ![WordsFile(v)] = L], v, NoData, FALSE)

NextLoadExport ==
  \/ \E req \in pending : LoadDictionaryOk(req)
  \/ \E req \in pending : LoadDictionaryFail(req)
  \/ exportJson

\* A words file of the repository is loaded and exported again
SpecLoadExport == InitLegacy /\ [][NextLoadExport]_vars

DuplicateFields ==
  [ru : { <<>>, <<"a">>, <<"A">>, <<" ", "a">>, <<" ">> }, en : { <<>>, <<"a">> },
   es : { <<>> }, ua : { <<>> }, intensity : { Tenths(3) }]

\* Adult dictionaries whose first two categories hold words that repeat
DuplicateDicts ==
  { DictOf(DEFAULT_ADULT_CATEGORIES, << ws1, ws2, <<>> >>) :
      ws1 \in SeqsUpTo(DuplicateFields, MaxPoolWords),
      ws2 \in SeqsUpTo(DuplicateFields, MaxPoolWords - 1) }

InitDuplicates ==
  \E d \in DuplicateDicts : StartsWith(RepoFiles, "adult", d, TRUE)

\* The duplicates of a dictionary are listed and removed
SpecDuplicates == InitDuplicates /\ [][removeDuplicates]_vars

(***************************************************************************)
(* Specifications of the editor at work: each one starts the editor on the *)
(* repository and takes the steps of one part of the interface.            *)
(***************************************************************************)
NextEdit ==
  \/ \E req \in pending : LoadDictionaryOk(req)
  \/ \E req \in pending : LoadDictionaryFail(req)
  \/ Views
  \/ CellEdits

\* The table is filtered, searched and sorted, and cells are edited
SpecEdit == Init /\ [][NextEdit]_vars

NextSelection ==
  \/ Loads
  \/ Selections
  \/ WordEdits

\* Rows are ticked, words deleted and moved, the variant switched
SpecSelection == Init /\ [][NextSelection]_vars

NextVariants ==
  \/ \E v \in Variants : SetVariant(v)
  \/ \E req \in pending : LoadDictionaryOk(req)
  \/ \E req \in pending : LoadDictionaryFail(req)
  \/ \E req \in pending, ok \in BOOLEAN : LoadVersionDone(req, ok)
  \/ Publishing

\* The variant is switched and the dictionary exported and published
SpecVariants == Init /\ [][NextVariants]_vars

NextCategories ==
  \/ RefreshDictionary
  \/ \E req \in pending : LoadDictionaryOk(req)
  \/ \E req \in pending : LoadDictionaryFail(req)
  \/ \E c \in CatIds(data.categories) : SelectCategory(c)
  \/ CategoryEdits

\* Categories are added with the sliders of the dialog, and deleted
SpecCategories == Init /\ [][NextCategories]_vars


(***************************************************************************)
(* C1: duplicates                                                          *)
(***************************************************************************)
\* The (category, index) positions whose field lang has the normal form s,
\* in category order and then index order
PositionsOf(d, Norm(_), lang, s) ==
  Concat([c \in 1..Len(d.categories) |->
            LET id == d.categories[c].id
                ws == WordsOf(d, id)
            IN SelectSeq([i \in 1..Len(ws) |-> [category |-> id, index |-> i]],
                         LAMBDA loc : Norm(ws[loc.index][lang]) = s)])

NormalForms(d, Norm(_), lang) ==
  UNION { { Norm(WordsOf(d, d.categories[c].id)[i][lang]) :
              i \in 1..Len(WordsOf(d, d.categories[c].id)) } :
          c \in 1..Len(d.categories) }

\* dups has exactly one entry for each language and non-empty normal form
\* that two or more records share, with all their positions in order
DuplicatesAre(d, dups, Norm(_)) ==
  /\ \A i \in 1..Len(dups) :
       /\ dups[i].word # <<>>
       /\ Len(dups[i].locations) >= 2
       /\ dups[i].locations = PositionsOf(d, Norm, dups[i].lang, dups[i].word)
  /\ \A i, j \in 1..Len(dups) :
       (dups[i].lang = dups[j].lang /\ dups[i].word = dups[j].word) => i = j
  /\ \A lang \in Range(LANGUAGES) : \A s \in NormalForms(d, Norm, lang) :
       (s # <<>> /\ Len(PositionsOf(d, Norm, lang, s)) >= 2)
         => \E i \in 1..Len(dups) : dups[i].lang = lang /\ dups[i].word = s

\* The normal form of a field: lower-cased, and in part_000 also trimmed of
\* the white space around it
NormalForm(s) ==
  IF revision = "part_000" THEN trim(toLowerCase(s)) ELSE toLowerCase(s)

\* C1 (amended): the duplicates list has exactly one entry for a pair
\* (language L, string s) if and only if s is non-empty and is the normal
\* form (lower-cased; in part_000 lower-cased and trimmed) of field L in at
\* least two word records of the listed categories; its locations are all of
\* those positions in category order and then index order.
C1_DuplicatesExact ==
  data # NoData => DuplicatesAre(data, duplicates(data, revision), NormalForm)

\* C1 witness: part_000 lists a duplicate whose records are in different
\* categories and differ in case or in the white space around the string
C1_Witness ==
  /\ data # NoData
  /\ revision = "part_000"
  /\ \E i \in 1..Len(duplicates(data, revision)) :
       LET dup == duplicates(data, revision)[i]
           locs == dup.locations
       IN \E a, b \in 1..Len(locs) :
            /\ locs[a].category # locs[b].category
            /\ data.words[locs[a].category][locs[a].index][dup.lang]
                 # data.words[locs[b].category][locs[b].index][dup.lang]

\* C1 as stated: the strings compared are the lower-cased field values
C1_AsStated ==
  data # NoData => DuplicatesAre(data, duplicates(data, revision), toLowerCase)

(***************************************************************************)
(* C6: positions of the legacy lists                                       *)
(***************************************************************************)
\* C6: in the exported legacy data, for every category and every position i
\* the strings at position i of the four language lists come from one and
\* the same word record of the dictionary.
C6_PositionsAligned ==
  download # NoDownload =>
    \A c \in 1..Len(data.categories) :
      LET id == data.categories[c].id
          ws == WordsOf(data, id)
      IN \A i \in 1..MaxLenOf(download.content, id) :
           \E j \in 1..Len(ws) :
             \A lang \in Range(LANGUAGES) :
               LET list == ObjGetList(download.content[lang], id)
               IN i <= Len(list) => list[i] = ws[j][lang]

(***************************************************************************)
(* C8: publish and reload                                                  *)
(***************************************************************************)
\* The editor shows what it has just published: both files were written
Published ==
  /\ data # NoData
  /\ ~hasChanges
  /\ version = repoVersion[VersionFile(variant)]
  /\ version.version[3] >= 1
  /\ repoWords[WordsFile(variant)] = convertNewToLegacy(data)

\* C8: a reload that succeeds after publishing gives back the dictionary the
\* operator published: the same categories, names, emojis, ranges and words
\* with their intensities.
C8_ReloadGivesPublished ==
  [][(Published /\ loading /\ ~loading' /\ pending' # pending /\ hasChanges' = FALSE
        /\ version' = version /\ data' # NoData
        /\ \E req \in pending : LoadDictionaryOk(req))
       => data' = data]_vars

(***************************************************************************)
(* C9: load and export                                                     *)
(***************************************************************************)
NoEmptyStrings(L) ==
  \A lang \in DOMAIN L : \A i \in 1..Len(L[lang]) :
    \A j \in 1..Len(L[lang][i].v) : L[lang][i].v[j] # <<>>

\* C9: for a words file L with no empty strings, what is exported after
\* loading L holds, for every language and every category id L has under that
\* language, exactly L's list in the same order, and whatever else it holds
\* is an empty list.
C9_RoundTripKeepsLegacy ==
  LET L == repoWords[WordsFile(variant)] IN
  (download # NoDownload /\ NoEmptyStrings(L)) =>
    /\ \A lang \in DOMAIN L : \A i \in 1..Len(L[lang]) :
         /\ ObjHas(download.content[lang], L[lang][i].k)
         /\ ObjGetList(download.content[lang], L[lang][i].k) = L[lang][i].v
    /\ \A lang \in Range(LANGUAGES) : \A i \in 1..Len(download.content[lang]) :
         LET e == download.content[lang][i]
         IN (lang \notin DOMAIN L \/ ~ObjHas(L[lang], e.k)) => e.v = <<>>

\* C9 witness: a file whose lists differ in length, with a category one
\* language lacks, has been loaded and exported
C9_Witness ==
  LET L == repoWords[WordsFile(variant)] IN
  /\ download # NoDownload
  /\ NoEmptyStrings(L)
  /\ "ua" \notin DOMAIN L
  /\ \E i \in 1..Len(L["ru"]) : Len(L["ru"][i].v) = 2 /\ ~ObjHas(L["en"], L["ru"][i].k)

(***************************************************************************)
(* C2: editing a cell                                                      *)
(***************************************************************************)
\* C2: whatever filter, search and sort are in effect, the rows stay where
\* they are while a cell is edited, and saveEdit changes at most the edited
\* field of the word record shown in the edited row, at its position in
\* data.words[selectedCategory]; every other record and category is unchanged.
C2_EditChangesDisplayedRecord ==
  [][/\ (editingCell # NoCell /\ editingCell' # NoCell)
          => (currentWords' = currentWords /\ editingCell' = editingCell)
     /\ (editingCell # NoCell /\ editingCell' = NoCell)
          => LET row == currentWords[editingCell.wordIdx]
                 ws == WordsOf(data, selectedCategory)
                 ws2 == WordsOf(data', selectedCategory)
             IN /\ \A f \in EditFields : ws[row.idx][f] = row[f]
                /\ data'.categories = data.categories
                /\ DOMAIN data'.words = DOMAIN data.words
                /\ \A id \in DOMAIN data.words \ {selectedCategory} :
                     data'.words[id] = data.words[id]
                /\ Len(ws2) = Len(ws)
                /\ \A i \in 1..Len(ws) : i # row.idx => ws2[i] = ws[i]
                /\ \A f \in EditFields \ {editingCell.field} :
                     ws2[row.idx][f] = ws[row.idx][f]]_vars

\* C2 witness: a cell is being edited in a row that is shown at another
\* position than the one its record is stored at, with a new value typed
C2_Witness ==
  /\ editingCell # NoCell
  /\ currentWords[editingCell.wordIdx].idx # editingCell.wordIdx
  /\ editValue # FieldString(currentWords[editingCell.wordIdx], editingCell.field)

(***************************************************************************)
(* C3: the ticked rows                                                     *)
(***************************************************************************)
\* C3: every index held in selectedWords keeps denoting the word record it
\* denoted when it was ticked: across every step, an index that stays
\* ticked denotes the same record of the selected category's word list.
C3_TickedIndicesKeepRecords ==
  [][(data # NoData /\ data' # NoData)
       => \A i \in selectedWords \cap selectedWords' :
            LET ws == WordsOf(data, selectedCategory)
                ws2 == WordsOf(data', selectedCategory')
            IN i <= Len(ws) => (i <= Len(ws2) /\ ws2[i] = ws[i])]_vars

(***************************************************************************)
(* C4: intensities of words                                                *)
(***************************************************************************)
IntegerIntensities == { Tenths(n) : n \in 1..10 }

\* C4: in every reachable state every word record has an intensity that is
\* an integer between 1 and 10.
C4_IntensitiesAreIntegers ==
  data # NoData =>
    \A id \in DOMAIN data.words : \A i \in 1..Len(data.words[id]) :
      data.words[id][i].intensity \in IntegerIntensities

(***************************************************************************)
(* C5: keys of data.words                                                  *)
(***************************************************************************)
\* C5: whenever a dictionary is loaded, the keys of data.words are exactly
\* the ids of data.categories.
C5_WordKeysAreCategoryIds ==
  data # NoData => DOMAIN data.words = CatIds(data.categories)

(***************************************************************************)
(* C7: the files of the two variants                                       *)
(***************************************************************************)
\* The first category of a words file: the editor writes a dictionary with
\* its categories in order, and the default categories of the variant a
\* dictionary was loaded for come first and cannot be deleted.
FirstCategory(legacy) == ObjKeys(legacy["ru"])[1]

HoldsVariant(legacy, v) == FirstCategory(legacy) = DefaultCats(v)[1].id

\* C7: the words file of a variant, in the repository or downloaded, never
\* holds the dictionary of the other variant.
C7_FilesHoldTheirVariant ==
  /\ \A v \in Variants : HoldsVariant(repoWords[WordsFile(v)], v)
  /\ download # NoDownload =>
       \A v \in Variants :
         download.name = WordsFile(v) => HoldsVariant(download.content, v)

(***************************************************************************)
(* C10: intensity ranges of categories                                     *)
(***************************************************************************)
RangeOrdered(lo, hi) == Tenths(1) <= lo /\ lo <= hi /\ hi <= Tenths(10)

\* C10: in every reachable state the pair of the add-category sliders and
\* the range of every category satisfy 1 <= min <= max <= 10.
C10_RangesOrdered ==
  /\ RangeOrdered(newCatIntensity[1], newCatIntensity[2])
  /\ data # NoData =>
       \A c \in 1..Len(data.categories) :
         RangeOrdered(data.categories[c].intensityMin,
                      data.categories[c].intensityMax)

\* C10 witness: a category has been added after both sliders were moved
C10_Witness ==
  /\ data # NoData
  /\ \E c \in 1..Len(data.categories) :
       /\ data.categories[c].id = <<"x", "_", "1">>
       /\ data.categories[c].intensityMin # Tenths(3)
       /\ data.categories[c].intensityMax # Tenths(7)

(***************************************************************************)
(* C11: a publish that fails                                               *)
(***************************************************************************)
\* The publish that is ending has put both of its files into the repository
BothFilesWritten ==
  /\ repoWords'[WordsFile(pub.variant)] = pub.legacy
  /\ repoVersion'[VersionFile(pub.variant)] = pub.newVersionInfo

\* C11: a publish whose PUT of the words file or of the version file failed,
\* by an exception or by a non-2xx response, leaves version, hasChanges and
\* the cache entry unchanged: the version bump and hasChanges = false happen
\* only when both files were written.
C11_FailedPublishChangesNothing ==
  [][(pub # NoPub /\ pub' = NoPub /\ pub.step = "putVersion" /\ ~BothFilesWritten)
       => (version' = version /\ hasChanges' = hasChanges /\ cache' = cache)]_vars

(***************************************************************************)
(* C12: removeDuplicates                                                   *)
(***************************************************************************)
\* C12: for every entry (language L, string s) of duplicates, after
\* removeDuplicates the word record at the entry's first location is still
\* in its category and s occurs exactly once in language L.
C12_FirstOccurrenceKept ==
  [][(data # NoData /\ data' # data)
       => LET dups == duplicates(data, revision)
          IN \A d \in 1..Len(dups) :
               LET first == dups[d].locations[1]
                   kept == data.words[first.category][first.index]
               IN /\ kept \in Range(WordsOf(data', first.category))
                  /\ Len(PositionsOf(data', NormalForm, dups[d].lang,
                                     dups[d].word)) = 1]_vars

(***************************************************************************)
(* C13: category ids                                                       *)
(***************************************************************************)
\* C13: in every reachable state no two categories of the dictionary have
\* the same id.
C13_CategoryIdsUnique ==
  data # NoData =>
    \A i, j \in 1..Len(data.categories) :
      data.categories[i].id = data.categories[j].id => i = j

\* C13 witness: a category was added from a name with white space, next to
\* the categories the words file brought
C13_Witness ==
  /\ data # NoData
  /\ \E c \in 1..Len(data.categories) :
       /\ data.categories[c].name = <<"x", " ", "1">>
       /\ data.categories[c].id = <<"x", "_", "1">>
  /\ \E c \in 1..Len(data.categories) : data.categories[c].id = <<"x">>

(***************************************************************************)
(* C14: the cache follows the data                                         *)
(***************************************************************************)
NothingInFlight == ~loading /\ pending = {} /\ pub = NoPub

\* C14: in part_000, in every state in which hasChanges is true and no load
\* or publish is in flight, the cache entry of the current variant equals
\* the in-memory dictionary.
C14_CacheHoldsChanges ==
  (revision = "part_000" /\ data # NoData /\ hasChanges /\ NothingInFlight)
    => loadFromCache(cache, variant) = data

(***************************************************************************)
(* C15: the cache entries of the two variants                              *)
(***************************************************************************)
\* A dictionary loaded for variant v, however edited: the default
\* categories of v come first and cannot be deleted.
DictionaryOf(d, v) == d.categories[1].id = DefaultCats(v)[1].id

\* C15: in part_000 the cache entry under a variant's key only ever holds a
\* dictionary loaded from, or edited under, that variant.
C15_CacheEntriesHoldTheirVariant ==
  revision = "part_000" =>
    \A v \in Variants :
      loadFromCache(cache, v) # NoData => DictionaryOf(loadFromCache(cache, v), v)

(***************************************************************************)
(* C16: the cache after a publish                                          *)
(***************************************************************************)
\* The publish that is ending reports success
PublishSucceeds ==
  /\ pub # NoPub
  /\ pub' = NoPub
  /\ pub.step = "putVersion"
  /\ version' = pub.newVersionInfo
  /\ ~hasChanges'

\* The step stores a dictionary just loaded from the repository under v
LoadStores(v) ==
  loading /\ ~loading' /\ ~hasChanges' /\ loadFromCache(cache', v) = data'

\* An entry of the cache that was absent is written by this step
EntryAppears(v) ==
  loadFromCache(cache, v) = NoData /\ loadFromCache(cache', v) # NoData

ShowsPublished == data # NoData /\ ~hasChanges /\ version.version[3] >= 1

CachedDict(v) ==
  DictOf(DefaultCats(v),
         [i \in 1..Len(DefaultCats(v)) |->
            IF i = 1
            THEN << [ru |-> <<"a">>, en |-> <<"A">>, es |-> <<"c">>, ua |-> <<>>,
                     intensity |-> Tenths(4)] >>
            ELSE <<>>])

\* localStorage when the editor opens
StoredCaches ==
  { c \in [Variants -> {NoData, Unparseable} \cup {CachedDict(v) : v \in Variants}] :
      \A v \in Variants : c[v] \in {NoData, Unparseable, CachedDict(v)} }

\* The state after the first render and its effects: the load effect has
\* taken the cached dictionary and called loadVersion, or called loadDictionary
StartsFromCache(c) ==
  LET cached == loadFromCache(c, "adult") IN
  /\ revision = "part_000"
  /\ variant = "adult"
  /\ data = cached
  /\ version = NoVersion
  /\ loading = (cached = NoData)
  /\ hasChanges = FALSE
  /\ selectedCategory = DefaultCats("adult")[1].id
  /\ searchQuery = <<>>
  /\ intensityFilter = << Tenths(1), Tenths(10) >>
  /\ sortByIntensity = "none"
  /\ newCatIntensity = << Tenths(3), Tenths(7) >>
  /\ editingCell = NoCell
  /\ editValue = <<>>
  /\ selectedWords = {}
  /\ addWordsOpen = FALSE
  /\ generating = FALSE
  /\ generatedWords = <<>>
  /\ generatedSelection = {}
  /\ generatedFor = NoCategory
  /\ pub = NoPub
  /\ pending = IF cached = NoData THEN {LoadRequest("adult")}
               ELSE {VersionRequest("adult")}
  /\ repoWords = RepoFiles
  /\ repoVersion = [f \in {VersionFile(x) : x \in Variants} |->
                      IF f = VersionFile("adult") THEN [version |-> <<1, 0, 0>>]
                      ELSE [version |-> <<2, 0, 0>>]]
  /\ cache = c
  /\ download = NoDownload
  /\ edits = 0

InitCached == \E c \in StoredCaches : StartsFromCache(c)

NextCached ==
  \/ RefreshDictionary
  \/ \E req \in pending : LoadDictionaryOk(req)
  \/ \E req \in pending : LoadDictionaryFail(req)
  \/ \E req \in pending, ok \in BOOLEAN : LoadVersionDone(req, ok)
  \/ \E v \in Variants : SetVariant(v)
  \/ \E r \in 1..Len(currentWords) : handleDeleteWord(r)

\* The caching revision opened over any stored entries, variants switched,
\* the dictionary refreshed and a word deleted
SpecCached == InitCached /\ [][NextCached]_vars

\* the cache holds, under the key of v, an entry that JSON.parse accepts
ParseableEntry(c, v) == c[v] # NoData /\ c[v] # Unparseable

\* what the load effect leaves for variant v, given the cache it found
LoadedCacheFirst(c, v, d, l, before, after) ==
  IF ParseableEntry(c, v)
  THEN /\ d = c[v]
       /\ ~l
       /\ VersionRequest(v) \in after
       /\ after \ before \subseteq {VersionRequest(v)}
  ELSE /\ l
       /\ LoadRequest(v) \in after
       /\ after \ before \subseteq {LoadRequest(v)}

\* C17: in the caching revision, on start and on every variant change, a
\* parseable cache entry of the variant becomes the dictionary, loading
\* becomes false and only the version file is fetched, and without such an
\* entry loadDictionary fetches the words and version files; a forced
\* refresh removes the cache entry of the variant before it fetches.
C17_CacheFirst ==
  /\ LoadedCacheFirst(cache, variant, data, loading, {}, pending)
  /\ [][revision = "part_000" =>
          /\ variant' # variant
               => LoadedCacheFirst(cache, variant', data', loading', pending, pending')
          /\ (variant' = variant /\ ~loading /\ loading')
               => /\ cache'[variant] = NoData
                  /\ LoadRequest(variant) \in pending'
                  /\ pending' \ pending \subseteq {LoadRequest(variant)}]_vars

\* a variant change has just taken the dictionary from its cache entry
C17_Witness ==
  /\ revision = "part_000"
  /\ variant = "family"
  /\ data = CachedDict("family")
  /\ ~loading
  /\ VersionRequest("family") \in pending

\* the value the step just stored in the cell being edited
StoredByEdit ==
  WordsOf(data', selectedCategory)[currentWords[editingCell.wordIdx].idx][editingCell.field]

\* min(10, max(1, n)) for a numeric n other than 0, and 5 otherwise
ClampedOrFive(value) ==
  LET n == Number(value) IN
  IF n.nan \/ n.val = 0 THEN Tenths(5)
  ELSE IF n.val > Tenths(10) THEN Tenths(10)
  ELSE IF n.val < Tenths(1) THEN Tenths(1)
  ELSE n.val

\* C18: saveEdit on the intensity field stores an integer in 1..10 for every
\* edit value, min(10, max(1, n)) for a numeric n other than 0 and 5 for a
\* value that is non-numeric, empty or 0; on a language field it stores the
\* edit value unchanged.
C18_StoresIntegerIntensity ==
  [][(editingCell # NoCell /\ editingCell' = NoCell) =>
       IF editingCell.field = "intensity"
       THEN /\ StoredByEdit \in { Tenths(k) : k \in 1..10 }
            /\ StoredByEdit = ClampedOrFive(editValue)
       ELSE StoredByEdit = editValue]_vars

NextDelete ==
  \/ \E req \in pending : LoadDictionaryOk(req)
  \/ \E req \in pending : LoadDictionaryFail(req)
  \/ Views
  \/ \E c \in CatIds(data.categories) : SelectCategory(c)
  \/ \E r \in 1..Len(currentWords) : handleDeleteWord(r)

\* The table is filtered, searched and sorted, and a row is deleted
SpecDelete == Init /\ [][NextDelete]_vars

\* the word record shown in a row
RecordOf(row) ==
  [ru |-> row.ru, en |-> row.en, es |-> row.es, ua |-> row.ua,
   intensity |-> row.intensity]

\* after is before without its record at position i, the rest in order
RemovedAt(before, after, i) ==
  /\ Len(after) = Len(before) - 1
  /\ \A j \in 1..Len(after) : after[j] = IF j < i THEN before[j] ELSE before[j + 1]

\* C19: the delete button of a displayed row, under any filter, search and
\* sort, shortens data.words[selectedCategory] by exactly the record shown in
\* that row, keeps the order of the remaining records, leaves every other
\* category unchanged and sets hasChanges.
C19_DeleteRemovesDisplayedRecord ==
  [][\A r \in 1..Len(currentWords) :
       handleDeleteWord(r) =>
         /\ RemovedAt(WordsOf(data, selectedCategory),
                      WordsOf(data', selectedCategory), currentWords[r].idx)
         /\ WordsOf(data, selectedCategory)[currentWords[r].idx]
              = RecordOf(currentWords[r])
         /\ data'.categories = data.categories
         /\ \A c \in CatIds(data.categories) \ {selectedCategory} :
              WordsOf(data', c) = WordsOf(data, c)
         /\ hasChanges']_vars

\* the only row left by the search was the second record, and it was deleted
C19_Witness ==
  /\ searchQuery = <<"c">>
  /\ edits = 1
  /\ hasChanges
  /\ selectedCategory = party
  /\ Len(WordsOf(data, party)) = 1
  /\ WordsOf(data, party)[1].ru = <<"a">>

\* every category id the words file L holds under some language
FoundIds(L) == UNION { Range(ObjKeys(L[lang])) : lang \in DOMAIN L }

\* the list the words file L holds for a language and a category, if any
ListIn(L, lang, id) ==
  IF lang \in DOMAIN L THEN ObjGetList(L[lang], id) ELSE <<>>

\* C20: convertLegacyToNew gives the variant's default categories in their
\* order, followed by every other category id found under any language; the
\* word list of each category is as long as the longest of its four language
\* lists, word i has for each language the string at position i of that
\* language's list, or the empty string past its end, and an intensity within
\* the category's [intensityMin, intensityMax].
C20_WordsBuiltByPosition ==
  data # NoData =>
    LET L == repoWords[WordsFile(variant)]
        cats == data.categories
        defaults == DefaultCats(variant)
        n == Len(defaults)
    IN /\ Len(cats) >= n
       /\ SubSeq(cats, 1, n) = defaults
       /\ { cats[i].id : i \in (n + 1)..Len(cats) } = FoundIds(L) \ CatIds(defaults)
       /\ \A i, j \in 1..Len(cats) : cats[i].id = cats[j].id => i = j
       /\ DOMAIN data.words = CatIds(cats)
       /\ \A i \in 1..Len(cats) :
            LET ws == data.words[cats[i].id] IN
            /\ \A lang \in Range(LANGUAGES) : Len(ListIn(L, lang, cats[i].id)) <= Len(ws)
            /\ \E lang \in Range(LANGUAGES) : Len(ListIn(L, lang, cats[i].id)) = Len(ws)
            /\ \A k \in 1..Len(ws) :
                 /\ \A lang \in Range(LANGUAGES) :
                      ws[k][lang] = IF k <= Len(ListIn(L, lang, cats[i].id))
                                    THEN ListIn(L, lang, cats[i].id)[k] ELSE <<>>
                 /\ ws[k].intensity >= cats[i].intensityMin
                 /\ ws[k].intensity <= cats[i].intensityMax

\* a file with lists of different lengths, a category that is no default of
\* the variant and no "ua" member has been converted
C20_Witness ==
  LET L == repoWords[WordsFile(variant)] IN
  /\ data # NoData
  /\ "ua" \notin DOMAIN L
  /\ Len(data.categories) > Len(DefaultCats(variant))
  /\ \E c \in CatIds(data.categories) :
       /\ Len(data.words[c]) = 2
       /\ data.words[c][2].ru # <<>>
       /\ data.words[c][2].en = <<>>

(***************************************************************************)
(* C21, C22: what removeDuplicates reports and leaves                      *)
(***************************************************************************)
RECURSIVE RecordsIn(_, _)
\* the number of word records the dictionary d holds in the categories cats
RecordsIn(d, cats) ==
  IF cats = <<>> THEN 0
  ELSE Len(WordsOf(d, Head(cats).id)) + RecordsIn(d, Tail(cats))

\* C21: the number removeDuplicates reports in its alert equals the number
\* of word records it removed from the dictionary.
C21_AlertCountsRemovedRecords ==
  [][removeDuplicates =>
       RemovedAlert(duplicates(data, revision))
         = RecordsIn(data, data.categories) - RecordsIn(data', data.categories)]_vars

RECURSIVE KeepOnly(_, _, _)
\* the records of ws at the positions of K, from position i on, in order
KeepOnly(ws, K, i) ==
  IF i > Len(ws) THEN <<>>
  ELSE (IF i \in K THEN <<ws[i]>> ELSE <<>>) \o KeepOnly(ws, K, i + 1)

\* C22: after removeDuplicates the duplicates of the resulting dictionary
\* are the empty list (no non-empty normal form is shared by two records of
\* a language, so a second removeDuplicates returns at once); the categories
\* are unchanged and each category keeps some of its records in their order.
C22_NoDuplicatesLeft ==
  [][removeDuplicates =>
       /\ duplicates(data', revision) = <<>>
       /\ \A lang \in Range(LANGUAGES) :
            \A s \in NormalForms(data', NormalForm, lang) \ {<<>>} :
              Len(PositionsOf(data', NormalForm, lang, s)) = 1
       /\ data'.categories = data.categories
       /\ DOMAIN data'.words = DOMAIN data.words
       /\ \A c \in DOMAIN data.words :
            \E K \in SUBSET (1..Len(data.words[c])) :
              data'.words[c] = KeepOnly(data.words[c], K, 1)]_vars

\* removeDuplicates has run and left records in two categories
C22_Witness ==
  /\ edits = 1
  /\ hasChanges
  /\ duplicates(data, revision) = <<>>
  /\ Len(WordsOf(data, party)) = 1
  /\ Len(WordsOf(data, dirty)) = 1

(***************************************************************************)
(* C23: moving the ticked words                                            *)
(***************************************************************************)
MovableWords ==
  [ru : { <<"a">>, <<"b">> }, en : { <<"A">> }, es : { <<>> }, ua : { <<>> },
   intensity : { Tenths(3) }]

\* Adult dictionaries with words in the first two categories
MovableDicts ==
  { DictOf(DEFAULT_ADULT_CATEGORIES, << ws1, ws2, <<>> >>) :
      ws1 \in SeqsUpTo(MovableWords, MaxPoolWords),
      ws2 \in SeqsUpTo(MovableWords, MaxPoolWords - 1) }

InitMove ==
  \E d \in MovableDicts : StartsWith(RepoFiles, "adult", d, FALSE)

NextMove ==
  \/ Selections
  \/ \E c \in CatIds(data.categories) : moveSelectedToCategory(c)

\* Rows are ticked and the ticked words moved to another category
SpecMove == InitMove /\ [][NextMove]_vars

RECURSIVE CopiesIn(_, _, _)
\* how many records of the categories cats of d equal w
CopiesIn(d, cats, w) ==
  IF cats = <<>> THEN 0
  ELSE LET ws == WordsOf(d, Head(cats).id)
       IN Cardinality({ i \in 1..Len(ws) : ws[i] = w }) + CopiesIn(d, Tail(cats), w)

\* C23: moveSelectedToCategory with a target other than the selected
\* category keeps the multiset of word records, leaves the unticked records
\* in the source in their order, appends the ticked ones to the end of the
\* target in their source order, leaves every third category and the
\* category list unchanged and empties selectedWords; with nothing ticked
\* it changes nothing.
C23_MoveConservesWords ==
  [][\A t \in CatIds(data.categories) :
       moveSelectedToCategory(t) =>
         LET source == WordsOf(data, selectedCategory)
             rest == (1..Len(source)) \ selectedWords
         IN /\ selectedWords # {}
            /\ t # selectedCategory
            /\ \A w \in MovableWords :
                 CopiesIn(data', data.categories, w) = CopiesIn(data, data.categories, w)
            /\ WordsOf(data', selectedCategory) = KeepOnly(source, rest, 1)
            /\ WordsOf(data', t) = WordsOf(data, t) \o KeepOnly(source, selectedWords, 1)
            /\ \A c \in CatIds(data.categories) \ {t, selectedCategory} :
                 WordsOf(data', c) = WordsOf(data, c)
            /\ data'.categories = data.categories
            /\ selectedWords' = {}]_vars

\* one of two words of 'party' has been moved behind the word of 'dirty'
C23_Witness ==
  /\ edits = 1
  /\ hasChanges
  /\ selectedWords = {}
  /\ Len(WordsOf(data, party)) = 1
  /\ Len(WordsOf(data, dirty)) = 2

(***************************************************************************)
(* C24: edits while a publish is running                                   *)
(***************************************************************************)
\* The editor with an edited dictionary d of variant v, publishToGithub
\* having been clicked: the call holds its snapshot and awaits the first PUT
StartsPublishing(v, d) ==
  /\ revision \in Revisions
  /\ variant = v
  /\ data = d
  /\ version = [version |-> <<1, 0, 0>>]
  /\ loading = FALSE
  /\ hasChanges = TRUE
  /\ selectedCategory = DefaultCats(v)[1].id
  /\ searchQuery = <<>>
  /\ intensityFilter = << Tenths(1), Tenths(10) >>
  /\ sortByIntensity = "none"
  /\ newCatIntensity = << Tenths(3), Tenths(7) >>
  /\ editingCell = NoCell
  /\ editValue = <<>>
  /\ selectedWords = {}
  /\ addWordsOpen = FALSE
  /\ generating = FALSE
  /\ generatedWords = <<>>
  /\ generatedSelection = {}
  /\ generatedFor = NoCategory
  /\ pub = [step |-> "putWords", legacy |-> convertNewToLegacy(d),
            newVersionInfo |-> NextVersion([version |-> <<1, 0, 0>>]),
            variant |-> v]
  /\ pending = {}
  /\ repoWords = RepoFiles
  /\ repoVersion = [f \in {VersionFile(x) : x \in Variants} |->
                      [version |-> <<1, 0, 0>>]]
  /\ cache = SaveEffect([x \in Variants |-> NoData], v, d, TRUE)
  /\ download = NoDownload
  /\ edits = 0

InitPublishing ==
  \E v \in Variants : \E d \in EditedDicts(v) : StartsPublishing(v, d)

NextPublishEdit ==
  \/ \E o \in PutOutcomes : PublishPutWords(o)
  \/ \E o \in PutOutcomes : PublishPutVersion(o)
  \/ \E r \in 1..Len(currentWords) : handleDeleteWord(r)
  \/ \E v \in Variants : SetVariant(v)
  \/ \E req \in pending : LoadDictionaryOk(req)
  \/ \E req \in pending : LoadDictionaryFail(req)

\* A publish is running while the operator deletes a word or switches variant
SpecPublishEdit == InitPublishing /\ [][NextPublishEdit]_vars

\* the words file a dictionary loaded now for variant v would be published as
FreshLegacy(v) ==
  LET L == repoWords[WordsFile(v)]
      n == TotalWords(L, PushMissing(DefaultCats(v), AllCatIds(L)))
  IN convertNewToLegacy(convertLegacyToNew(L, v, [i \in 1..n |-> 0]))

\* C24: hasChanges is false only for a dictionary that was loaded or
\* published: every edit sets hasChanges, an edit made after a publish took
\* its snapshot leaves hasChanges true when the publish completes, and in
\* part_000 a dictionary restored from the cache with hasChanges false is the
\* one the repository holds.
C24_UnchangedMeansSaved ==
  [][/\ (data # NoData /\ data' # data /\ variant' = variant /\ pending' = pending)
          => hasChanges'
     /\ (pub # NoPub /\ pub.step = "putVersion" /\ pub' = NoPub /\ hasChanges
           /\ variant = pub.variant /\ convertNewToLegacy(data) # pub.legacy)
          => hasChanges'
     /\ (revision = "part_000" /\ variant' # variant /\ ~loading' /\ ~hasChanges')
          => convertNewToLegacy(data') = FreshLegacy(variant')]_vars

(***************************************************************************)
(* C25: responses that arrive after a change of variant                    *)
(***************************************************************************)
\* C25: a response of loadVersion or loadDictionary never stores the
\* version or the dictionary of a variant other than the selected one:
\* whenever a response changes version, the new version is that of the
\* selected variant's version file, and whenever one changes data, the new
\* dictionary is of the selected variant.
C25_ResponsesOfSelectedVariant ==
  [][(pending' # pending /\ pending' \subseteq pending) =>
       /\ version' # version => version' = repoVersion[VersionFile(variant)]
       /\ data' # data => DictionaryOf(data', variant)]_vars

(***************************************************************************)
(* C26: words generated by the AI (part_000)                               *)
(***************************************************************************)
NextGenerate ==
  \/ \E req \in pending : LoadDictionaryOk(req)
  \/ \E req \in pending : LoadDictionaryFail(req)
  \/ \E c \in CatIds(data.categories) : SelectCategory(c)
  \/ Generation

\* The dictionary is loaded, categories are selected and words generated
SpecGenerate == Init /\ [][NextGenerate]_vars

\* C26: handleAddGeneratedWords adds words only to the category they were
\* generated for, also when the dialog was closed or another category
\* selected while the reply was awaited; it appends exactly the generated
\* words whose index is in generatedSelection, in order, to the end of the
\* category and empties generatedWords and generatedSelection.
C26_AddedToTheirCategory ==
  [][handleAddGeneratedWords =>
       /\ selectedCategory = generatedFor
       /\ WordsOf(data', selectedCategory)
            = WordsOf(data, selectedCategory)
                \o KeepOnly(generatedWords, generatedSelection, 1)
       /\ \A c \in CatIds(data.categories) \ {selectedCategory} :
            WordsOf(data', c) = WordsOf(data, c)
       /\ generatedWords' = <<>>
       /\ generatedSelection' = {}]_vars

====
